---- MODULE Spec2Model ----
(***************************************************************************)
(* State-machine model of the root App component (src/pages/AuthPage.tsx,  *)
(* lines 270-603): the optimistic save / delete reconciler over the two    *)
(* asset lists, the background list refresh, and the session projector.    *)
(*                                                                         *)
(* React semantics kept by the model:                                      *)
(*  - component state (useState) is the latest queued value; functional    *)
(*    updaters (setX(prev => ...)) read that latest value;                  *)
(*  - a handler reads plain identifiers (currentUser, galleryAssets,       *)
(*    deletingAssetId, ...) from the closure of the render that created    *)
(*    it: `rendered` is that closure, refreshed only by the Render step;    *)
(*  - processSession and the fetch functions it calls live in the closure  *)
(*    of the render in which the session effect last ran (`sub`), and the  *)
(*    effect re-runs only when location.pathname changes;                   *)
(*  - every await splits a handler into steps; the remote service acts in  *)
(*    a step of its own between the request and the continuation.          *)
(*                                                                         *)
(* The server-side rendering handler (src/api/index.ts, lines 29-49) runs  *)
(* in a process of its own; `ssr` is the request it is handling.           *)
(***************************************************************************)
EXTENDS Integers, Sequences, FiniteSets, TLC

\* ------------------------------------------------------------------ bounds
MaxCalls == 2
MaxEvents == 2
NPre == 2
MaxStale == 1
\* chunks in the HTML template and in the output of render
MaxTemplate == 2
MaxHtml == 2

\* --------------------------------------------------------------- constants
Lists == {"gallery", "collection"}
Contents == {"imgA", "imgB"}
\* milliseconds elapsed on the clock since the previous save read it
Elapsed == {0, 1}
LANDING == "LANDING"
AUTH == "AUTH"
HOME == "HOME"
Paths == {LANDING, AUTH, HOME}

\* null for User | null (a session user always has a non-empty id)
NullUser == [id |-> "", email |-> "", username |-> ""]
\* null for string | null identifiers
NullId == [pfx |-> "", n |-> 0]
NoError == ""

SessionUsers == {[id |-> "u1", email |-> "u1@mail"]}
\* a session user without an e-mail address (session.user.email ?? '')
GhostUsers == {[id |-> "u2", email |-> ""]}
NoSession == [id |-> "", email |-> ""]
\* the profiles lookup found no row (maybeSingle() gives data: null)
NoProfile == [kind |-> "none", username |-> ""]

\* the placeholder token of the template
OUTLET == "<!--ssr-outlet-->"
\* a document is a sequence of chunks of text; in the output of render "$$"
\* and "$&" are the two-character texts that String.prototype.replace treats
\* as patterns when they occur in its replacement argument
TemplateChunks == {OUTLET, "<p>"}
HtmlChunks == {"<div>", "$$", "$&"}
\* what the steps of the handler can throw: fs and import() throw an Error;
\* render, which is injected, may also reject with a value that is no object
NoThrow == [kind |-> "none", message |-> ""]
Errors == {[kind |-> "Error", message |-> "ENOENT"]}
RenderThrows == Errors \cup {[kind |-> "undefined", message |-> ""]}

\* ----------------------------------------------------------------- helpers
\* `temp_${Date.now()}` and `temp_collection_${Date.now()}`
TempId(L, t) == [pfx |-> IF L = "gallery" THEN "temp_" ELSE "temp_collection_", n |-> t]

\* both templates start with the reserved prefix 'temp_'
IsPlaceholderId(id) == id.pfx \in {"temp_", "temp_collection_"}

\* identifier the remote store gives the asset written by save number op;
\* every entry carries `op`, the number of the save it stands for (0 for an
\* asset stored before the session), for observation only
RealId(op) == [pfx |-> "asset_", n |-> NPre + op]

RealAsset(s) == [id |-> RealId(s.op), owner |-> s.owner, display |-> s.content, op |-> s.op]

PreAsset(i) == [id |-> [pfx |-> "asset_", n |-> i], owner |-> "u1", display |-> "imgA", op |-> 0]

\* [tempAsset, ...prevAssets]
PrependMutant(a, s) == Append(s, a)
Prepend(a, s) == <<a>> \o s

\* prevAssets.map(asset => (asset.id === tempId ? realAsset : asset))
ReplaceById(s, id, real) == [i \in 1..Len(s) |-> IF s[i].id = id THEN real ELSE s[i]]

\* prevAssets.filter(asset => asset.id !== id)
RemoveByIdMutant(s, id) == IF s = <<>> THEN s ELSE Tail(s)
RemoveById(s, id) == SelectSeq(s, LAMBDA a : a.id # id)

\* if (!currentUser) { ... throw ... }
SaveRejectedMutant(u) == FALSE
SaveRejected(u) == u.id = ""

\* location.pathname === PATHS.LANDING || location.pathname === PATHS.AUTH
IsPublicPath(p) == p = LANDING \/ p = AUTH

Range(s) == {s[i] : i \in 1..Len(s)}

\* a key for a new pending promise: the least number no pending one has
FreshId(ids) ==
  CHOOSE n \in 1..(Cardinality(ids) + 1) :
    n \notin ids /\ \A m \in 1..(n - 1) : m \in ids

EmptyLists == [L \in Lists |-> <<>>]

\* ------------------------------------------------------------------- state
VARIABLES
  currentUser,   \* useState<User | null>
  appLoading,    \* useState loading
  assets,        \* galleryAssets / collectionAssets, by list
  listLoading,   \* isGalleryLoading / isCollectionLoading
  listError,     \* galleryError / collectionError
  deleting,      \* deletingAssetId / deletingCollectionAssetId
  isTourActive,  \* useState isTourActive
  tourCompleted, \* localStorage 'zola_ai_tour_completed' present
  tourTimers,    \* pending setTimeout(() => setIsTourActive(true), 500)
  path,          \* location.pathname
  rendered,      \* closure of the last render: user, assets, deleting, loading
  effPath,       \* location.pathname of the render in which the effect last ran
  sub,           \* closure of the live onAuthStateChange subscription
  session,       \* the identity provider's current session user
  remote,        \* the remote store's assets, by list, most recent first
  clock,         \* Date.now() as last read by a save (0: not read yet)
  saves,         \* background saves in flight
  dels,          \* deletes in flight
  fetches,       \* list fetches in flight
  sessTasks,     \* processSession calls awaiting the profile lookup
  getSess,       \* getSession() promises in flight
  logout,        \* handleLogout awaiting signOut: "none" | "sent" | "resolved"
  lastCall,      \* how the latest handler call went (observation only)
  obs,           \* the latest processSession call and profile result (observation only)
  settled,       \* the background saves that have completed (observation only)
  stale,         \* steps taken since a render became pending
  ncalls,        \* handler calls made on each list
  nevents,       \* session events, logouts, navigations and provider faults so far
  ssr            \* the request in the SSR handler: position, values read, responses

compVars == <<currentUser, appLoading, assets, listLoading, listError, deleting>>
tourVars == <<isTourActive, tourCompleted, tourTimers>>
envVars == <<session, remote, clock>>
taskVars == <<saves, dels, fetches, sessTasks, getSess, logout>>
countVars == <<ncalls, nevents>>
appVars == <<compVars, tourVars, path, rendered, effPath, sub, envVars, taskVars,
             lastCall, obs, settled, stale, countVars>>
vars == <<appVars, ssr>>

\* no request has reached the SSR handler
SsrIdle == [pc |-> "idle", template |-> <<>>, appHtml |-> <<>>, thrown |-> NoThrow,
            sent |-> <<>>]

\* handler calls made so far (saves, deletes, refreshes), counted per list
CallsMade == ncalls["gallery"] + ncalls["collection"]

Closure(p, as) == [path |-> p, empty |-> [L \in Lists |-> as[L] = <<>>]]

\* the state after the first render and its effect: useState initial values,
\* the subscription made, getSession() in flight; the address, the persisted
\* session and the persisted tour marker are what the browser holds
InitWith(paths, sessions, markers) ==
  /\ currentUser = NullUser
  /\ appLoading = TRUE
  /\ assets = EmptyLists
  /\ listLoading = [L \in Lists |-> FALSE]
  /\ listError = [L \in Lists |-> NoError]
  /\ deleting = [L \in Lists |-> NullId]
  /\ isTourActive = FALSE
  /\ tourCompleted \in markers
  /\ tourTimers = 0
  /\ path \in paths
  /\ rendered = [user |-> NullUser, assets |-> EmptyLists,
                 deleting |-> [L \in Lists |-> NullId], loading |-> TRUE]
  /\ effPath = path
  /\ sub = Closure(path, EmptyLists)
  /\ session \in sessions
  /\ remote = [L \in Lists |-> [i \in 1..NPre |-> PreAsset(i)]]
  /\ clock = 0
  /\ saves = {}
  /\ dels = {}
  /\ fetches = {}
  /\ sessTasks = {}
  /\ getSess = {[gid |-> 0, cl |-> Closure(path, EmptyLists)]}
  /\ logout = "none"
  /\ lastCall = "none"
  /\ obs = [session |-> NoSession, by |-> "none", profile |-> NoProfile]
  /\ settled = {}
  /\ stale = 0
  /\ ncalls = [L \in Lists |-> 0] /\ nevents = 0
  /\ ssr = SsrIdle

Init == InitWith(Paths, {NoSession} \cup SessionUsers, BOOLEAN)

\* ---------------------------------------------------- optimistic save
sessVars == <<session, sessTasks, getSess, logout, sub, effPath, path, obs, nevents>>

\* handleAssetSaved / handleSaveToCollection up to the end of the synchronous
\* part: the guard on the closure's currentUser, the placeholder, the prepend,
\* and the launch of the background IIFE (whose first await is the remote write).
\* Date.now() reads a positive number of milliseconds, dt after the last read.
Save(L, c, dt) ==
  /\ CallsMade < MaxCalls
  /\ ncalls' = [ncalls EXCEPT ![L] = @ + 1]
  /\ IF SaveRejected(rendered.user)
       THEN /\ lastCall' = "save_threw"
            /\ UNCHANGED <<assets, saves, clock>>
       ELSE LET tempId == TempId(L, clock + dt)
                tempAsset == [id |-> tempId, owner |-> rendered.user.id,
                              display |-> c, op |-> ncalls[L] + 1]
            IN /\ clock + dt > 0
               /\ clock' = clock + dt
               /\ assets' = [assets EXCEPT ![L] = Prepend(tempAsset, @)]
               /\ saves' = saves \cup
                    {[op |-> ncalls[L] + 1, list |-> L, tempId |-> tempId,
                      owner |-> rendered.user.id, content |-> c, st |-> "sent",
                      preLen |-> Len(assets[L])]}
               /\ lastCall' = "save_returned"
  /\ UNCHANGED <<currentUser, appLoading, listLoading, listError, deleting,
                 tourVars, rendered, session, remote, dels, fetches, sessVars,
                 settled>>

handleAssetSaved(c, dt) == Save("gallery", c, dt)

handleSaveToCollection(c, dt) == Save("collection", c, dt)

\* saveAsset / saveAssetToCollection at the remote service: the write either
\* stores the authoritative asset or fails.
SaveRemote(s, ok) ==
  /\ s \in saves /\ s.st = "sent"
  /\ saves' = (saves \ {s}) \cup {[s EXCEPT !.st = IF ok THEN "ok" ELSE "fail"]}
  /\ remote' = IF ok THEN [remote EXCEPT ![s.list] = <<RealAsset(s)>> \o @] ELSE remote
  /\ UNCHANGED <<compVars, tourVars, rendered, session, clock, dels, fetches,
                 sessTasks, getSess, logout, sub, effPath, obs, path, lastCall, settled,
                 countVars>>

\* the continuation of the background IIFE: swap on success, filter on failure
SaveDone(s) ==
  /\ s \in saves /\ s.st \in {"ok", "fail"}
  /\ saves' = saves \ {s}
  /\ settled' = settled \cup {[list |-> s.list, op |-> s.op, tempId |-> s.tempId,
                                ok |-> s.st = "ok", preLen |-> s.preLen]}
  /\ assets' = [assets EXCEPT ![s.list] =
                  IF s.st = "ok" THEN ReplaceById(@, s.tempId, RealAsset(s))
                                 ELSE RemoveById(@, s.tempId)]
  /\ UNCHANGED <<currentUser, appLoading, listLoading, listError, deleting,
                 tourVars, rendered, envVars, dels, fetches, sessVars,
                 lastCall, countVars>>

\* --------------------------------------------------- optimistic delete
\* handleDeleteAsset / handleDeleteAssetFromCollection up to the await: the
\* guard and the snapshot read the closure's deleting marker and list.
Delete(L, a) ==
  /\ CallsMade < MaxCalls
  /\ ncalls' = [ncalls EXCEPT ![L] = @ + 1]
  /\ IF rendered.deleting[L] # NullId
       THEN /\ lastCall' = "delete_blocked"
            /\ UNCHANGED <<assets, deleting, dels>>
       ELSE /\ lastCall' = "delete_started"
            /\ assets' = [assets EXCEPT ![L] = RemoveById(@, a.id)]
            /\ deleting' = [deleting EXCEPT ![L] = a.id]
            /\ dels' = dels \cup {[did |-> ncalls[L] + 1, list |-> L, id |-> a.id,
                                   snapshot |-> rendered.assets[L], st |-> "sent",
                                   pre |-> assets[L]]}
  /\ UNCHANGED <<currentUser, appLoading, listLoading, listError, tourVars,
                 rendered, envVars, saves, fetches, sessVars, settled>>

\* the delete buttons exist on the pages of a render with a user, for the
\* assets that render lists
handleDeleteAsset(a) ==
  /\ rendered.user # NullUser /\ ~rendered.loading
  /\ a \in Range(rendered.assets["gallery"])
  /\ Delete("gallery", a)

handleDeleteAssetFromCollection(a) ==
  /\ rendered.user # NullUser /\ ~rendered.loading
  /\ a \in Range(rendered.assets["collection"])
  /\ Delete("collection", a)

\* deleteAsset / deleteAssetFromCollection at the remote service
DeleteRemote(d, ok) ==
  /\ d \in dels /\ d.st = "sent"
  /\ dels' = (dels \ {d}) \cup {[d EXCEPT !.st = IF ok THEN "ok" ELSE "fail"]}
  /\ remote' = IF ok THEN [remote EXCEPT ![d.list] = RemoveById(@, d.id)] ELSE remote
  /\ UNCHANGED <<compVars, tourVars, rendered, session, clock, saves, fetches,
                 sessTasks, getSess, logout, sub, effPath, obs, path, lastCall, settled,
                 countVars>>

\* the continuation: catch (rollback + error flag) and finally (marker reset)
DeleteDoneMutant(d) ==
  /\ d \in dels /\ d.st \in {"ok", "fail"}
  /\ dels' = dels \ {d}
  /\ assets' = IF d.st = "fail" THEN [assets EXCEPT ![d.list] = d.snapshot] ELSE assets
  /\ listError' = IF d.st = "fail"
                    THEN [listError EXCEPT ![d.list] = "delete_failed"] ELSE listError
  /\ deleting' = IF d.st = "ok" THEN [deleting EXCEPT ![d.list] = NullId] ELSE deleting
  /\ UNCHANGED <<currentUser, appLoading, listLoading, tourVars, rendered,
                 envVars, saves, fetches, sessVars, lastCall, settled, countVars>>
DeleteDone(d) ==
  /\ d \in dels /\ d.st \in {"ok", "fail"}
  /\ dels' = dels \ {d}
  /\ assets' = IF d.st = "fail" THEN [assets EXCEPT ![d.list] = d.snapshot] ELSE assets
  /\ listError' = IF d.st = "fail"
                    THEN [listError EXCEPT ![d.list] = "delete_failed"] ELSE listError
  /\ deleting' = [deleting EXCEPT ![d.list] = NullId]
  /\ UNCHANGED <<currentUser, appLoading, listLoading, tourVars, rendered,
                 envVars, saves, fetches, sessVars, lastCall, settled, countVars>>

\* -------------------------------------------------------- list refresh
\* the guard of fetchGalleryAssets / fetchCollectionAssets, on the list of
\* the closure the function was created in
FetchWanted(userId, closureEmpty, forceRefresh) ==
  ~(userId = "" \/ (~closureEmpty /\ ~forceRefresh))

NewFetch(L, userId) == [fid |-> FreshId({f.fid : f \in fetches}), list |-> L, owner |-> userId,
                        st |-> "sent", result |-> <<>>]

\* onRefresh={() => fetchGalleryAssets(currentUser!.id, true)}
Refresh(L) ==
  /\ rendered.user # NullUser /\ ~rendered.loading
  /\ CallsMade < MaxCalls
  /\ FetchWanted(rendered.user.id, rendered.assets[L] = <<>>, TRUE)
  /\ ncalls' = [ncalls EXCEPT ![L] = @ + 1]
  /\ listLoading' = [listLoading EXCEPT ![L] = TRUE]
  /\ listError' = [listError EXCEPT ![L] = NoError]
  /\ fetches' = fetches \cup {NewFetch(L, rendered.user.id)}
  /\ lastCall' = "refresh"
  /\ UNCHANGED <<currentUser, appLoading, assets, deleting, tourVars, rendered,
                 envVars, saves, dels, sessVars, settled>>

\* getAssetsForUser / getAssetsFromCollection at the remote service
FetchRemote(f, ok) ==
  /\ f \in fetches /\ f.st = "sent"
  /\ fetches' = (fetches \ {f}) \cup
       {IF ok THEN [f EXCEPT !.st = "ok",
                      !.result = SelectSeq(remote[f.list], LAMBDA a : a.owner = f.owner)]
              ELSE [f EXCEPT !.st = "fail"]}
  /\ UNCHANGED <<compVars, tourVars, rendered, envVars, saves, dels, sessTasks,
                 getSess, logout, sub, effPath, obs, path, lastCall, settled, countVars>>

\* the continuation: the result overwrites the list, or the error flag is set;
\* finally the loading flag is cleared
FetchDone(f) ==
  /\ f \in fetches /\ f.st \in {"ok", "fail"}
  /\ fetches' = fetches \ {f}
  /\ assets' = IF f.st = "ok" THEN [assets EXCEPT ![f.list] = f.result] ELSE assets
  /\ listError' = IF f.st = "fail"
                    THEN [listError EXCEPT ![f.list] = "load_failed"] ELSE listError
  /\ listLoading' = [listLoading EXCEPT ![f.list] = FALSE]
  /\ UNCHANGED <<currentUser, appLoading, deleting, tourVars, rendered, envVars,
                 saves, dels, sessVars, lastCall, settled, countVars>>

\* --------------------------------------------------- session projector
listVars == <<remote, clock, saves, dels, lastCall, settled, ncalls>>

\* the else branch and the catch branch of processSession: the logged-out
\* projection, with the redirect decided on the closure's location.pathname
LoggedOutProjectionMutant(cl) ==
  /\ currentUser' = NullUser
  /\ assets' = assets
  /\ path' = IF ~IsPublicPath(cl.path) THEN LANDING ELSE path
LoggedOutProjection(cl) ==
  /\ currentUser' = NullUser
  /\ assets' = EmptyLists
  /\ path' = IF ~IsPublicPath(cl.path) THEN LANDING ELSE path

\* processSession(s) up to its first await (session with a user: the profile
\* lookup is issued) or to its end (no user: the logged-out projection)
ProcessSession(s, cl, by) ==
  /\ obs' = [obs EXCEPT !.session = s, !.by = by]
  /\ IF s.id # ""
       THEN /\ sessTasks' = sessTasks \cup
                 {[sid |-> FreshId({t.sid : t \in sessTasks}), user |-> s, cl |-> cl,
                   by |-> by]}
            /\ UNCHANGED <<currentUser, assets, path>>
       ELSE /\ LoggedOutProjection(cl)
            /\ UNCHANGED sessTasks

\* profile?.username || userEmail || 'ghost_user'
DisplayNameMutant(profileName, userEmail) ==
  IF userEmail # "" THEN userEmail
  ELSE IF profileName # "" THEN profileName ELSE "ghost_user"
DisplayName(profileName, userEmail) ==
  IF profileName # "" THEN profileName
  ELSE IF userEmail # "" THEN userEmail ELSE "ghost_user"

ProfileResults == {[kind |-> "found", username |-> "prof"],
                   [kind |-> "found", username |-> ""],
                   [kind |-> "none", username |-> ""],
                   [kind |-> "error", username |-> ""],
                   [kind |-> "throw", username |-> ""]}

\* the awaited lookup rejects (or anything else in the try block throws); an
\* error result ({ error }) is only logged
ProfileThrowsMutant(res) == res.kind \in {"throw", "error"}
ProfileThrows(res) == res.kind = "throw"

\* the continuation of processSession after the profile lookup: the user
\* projection, the two background refreshes (guarded on the lists of the
\* effect's closure), the redirect and the tour timer; or the catch branch
ProfileResolve(t, res) ==
  /\ t \in sessTasks
  /\ sessTasks' = sessTasks \ {t}
  /\ obs' = [obs EXCEPT !.profile = res]
  /\ IF ProfileThrows(res)
       THEN /\ nevents < MaxEvents
            /\ nevents' = nevents + 1
            /\ LoggedOutProjection(t.cl)
            /\ UNCHANGED <<listLoading, listError, fetches, tourTimers>>
       ELSE LET wanted == {L \in Lists : FetchWanted(t.user.id, t.cl.empty[L], FALSE)}
            IN /\ currentUser' = [id |-> t.user.id, email |-> t.user.email,
                                  username |-> DisplayName(res.username, t.user.email)]
               /\ listLoading' = [L \in Lists |-> IF L \in wanted THEN TRUE ELSE listLoading[L]]
               /\ listError' = [L \in Lists |-> IF L \in wanted THEN NoError ELSE listError[L]]
               /\ fetches' = fetches \cup {NewFetch(L, t.user.id) : L \in wanted}
               /\ path' = IF IsPublicPath(t.cl.path) THEN HOME ELSE path
               /\ tourTimers' = IF ~tourCompleted THEN tourTimers + 1 ELSE tourTimers
               /\ UNCHANGED <<assets, nevents>>
  /\ UNCHANGED <<appLoading, deleting, isTourActive, tourCompleted, rendered,
                 effPath, sub, session, getSess, logout, listVars>>

\* what made the effect run whose getSession() call g is: the first render
\* (gid 0, see Init) or a later change of location.pathname (see Render)
QueryOrigin(g) == IF g.gid = 0 THEN "mount" ELSE "route"

\* supabase.auth.getSession() settles: then -> processSession(session),
\* catch -> processSession(null), finally -> setLoading(false)
GetSessionResolve(g, ok) ==
  /\ g \in getSess
  /\ getSess' = getSess \ {g}
  /\ IF ok THEN UNCHANGED nevents
           ELSE nevents < MaxEvents /\ nevents' = nevents + 1
  /\ ProcessSession(IF ok THEN session ELSE NoSession, g.cl, QueryOrigin(g))
  /\ appLoading' = FALSE
  /\ UNCHANGED <<listLoading, listError, deleting, tourVars, rendered, effPath,
                 sub, session, fetches, logout, listVars>>

\* the identity provider reports a session change (sign-in, sign-out, token
\* refresh) to the live onAuthStateChange subscription
AuthEvent(s) ==
  /\ nevents < MaxEvents
  /\ nevents' = nevents + 1
  /\ session' = s
  /\ ProcessSession(s, sub, "provider")
  /\ UNCHANGED <<appLoading, listLoading, listError, deleting, tourVars, rendered,
                 effPath, sub, fetches, getSess, logout, listVars>>

\* handleLogout up to its await
handleLogout ==
  /\ rendered.user # NullUser /\ ~rendered.loading
  /\ logout = "none"
  /\ nevents < MaxEvents
  /\ nevents' = nevents + 1
  /\ logout' = "sent"
  /\ UNCHANGED <<compVars, tourVars, path, rendered, effPath, obs, sub, envVars, saves,
                 dels, fetches, sessTasks, getSess, lastCall, settled, ncalls>>

\* signOut at the identity provider: on success the session ends and the
\* subscription is told; on error nothing changes there
SignOutRemote(ok) ==
  /\ logout = "sent"
  /\ logout' = "resolved"
  /\ IF ok
       THEN /\ session' = NoSession
            /\ ProcessSession(NoSession, sub, "provider")
       ELSE UNCHANGED <<session, currentUser, assets, path, sessTasks, obs>>
  /\ UNCHANGED <<appLoading, listLoading, listError, deleting, tourVars, rendered,
                 effPath, sub, fetches, getSess, listVars, nevents>>

\* the continuation of handleLogout
LogoutDoneMutant ==
  /\ logout = "resolved"
  /\ logout' = "none"
  /\ currentUser' = IF session = NoSession THEN NullUser ELSE currentUser
  /\ assets' = IF session = NoSession THEN EmptyLists ELSE assets
  /\ path' = LANDING
  /\ UNCHANGED <<appLoading, listLoading, listError, deleting, tourVars, rendered,
                 effPath, obs, sub, session, fetches, sessTasks, getSess, listVars, nevents>>
LogoutDone ==
  /\ logout = "resolved"
  /\ logout' = "none"
  /\ currentUser' = NullUser
  /\ assets' = EmptyLists
  /\ path' = LANDING
  /\ UNCHANGED <<appLoading, listLoading, listError, deleting, tourVars, rendered,
                 effPath, obs, sub, session, fetches, sessTasks, getSess, listVars, nevents>>

\* the user follows a link or edits the address bar
UserNavigate(p) ==
  /\ p # path
  /\ nevents < MaxEvents
  /\ nevents' = nevents + 1
  /\ path' = p
  /\ UNCHANGED <<compVars, tourVars, rendered, effPath, obs, sub, envVars, taskVars,
                 lastCall, settled, ncalls>>

\* ------------------------------------------------------------- render
View == [user |-> currentUser, assets |-> assets, deleting |-> deleting,
         loading |-> appLoading]

\* <Route path="*" element={<Navigate to={PATHS.LANDING} replace />} />
CatchAllRedirect == ~appLoading /\ currentUser = NullUser /\ ~IsPublicPath(path)

\* React renders App with the current state: handlers are re-created over it,
\* the session effect re-runs if location.pathname changed (new subscription,
\* new getSession), and the logged-out catch-all route redirects
RenderPending == rendered # View \/ effPath # path \/ CatchAllRedirect

Render ==
  /\ RenderPending
  /\ stale' = 0
  /\ rendered' = View
  /\ IF effPath # path
       THEN /\ effPath' = path
            /\ sub' = Closure(path, assets)
            /\ getSess' = getSess \cup {[gid |-> FreshId({g.gid : g \in getSess}), cl |-> Closure(path, assets)]}
       ELSE UNCHANGED <<effPath, sub, getSess>>
  /\ path' = IF CatchAllRedirect THEN LANDING ELSE path
  /\ UNCHANGED <<compVars, tourVars, envVars, saves, dels, fetches, sessTasks,
                 logout, lastCall, obs, settled, ncalls, nevents, ssr>>

\* --------------------------------------------------------------- tour
\* the 500 ms timer set by processSession fires
TourTimerFire ==
  /\ tourTimers > 0
  /\ tourTimers' = tourTimers - 1
  /\ isTourActive' = TRUE
  /\ UNCHANGED <<compVars, tourCompleted, path, rendered, effPath, obs, sub, envVars,
                 taskVars, lastCall, settled, countVars>>

handleTourClose ==
  /\ isTourActive
  /\ tourCompleted' = TRUE
  /\ isTourActive' = FALSE
  /\ UNCHANGED <<compVars, tourTimers, path, rendered, effPath, obs, sub, envVars,
                 taskVars, lastCall, settled, countVars>>

\* onHelpClick={() => setIsTourActive(true)}
HelpClick ==
  /\ rendered.user # NullUser /\ ~rendered.loading
  /\ ~isTourActive
  /\ isTourActive' = TRUE
  /\ UNCHANGED <<compVars, tourCompleted, tourTimers, path, rendered, effPath, obs, sub,
                 envVars, taskVars, lastCall, settled, countVars>>

\* ------------------------------------------------------- SSR handler
SeqsUpTo(S, n) == UNION {[1..k -> S] : k \in 0..n}
Templates == SeqsUpTo(TemplateChunks, MaxTemplate)
Htmls == SeqsUpTo(HtmlChunks, MaxHtml)

\* what a chunk of the replacement argument stands for: "$$" inserts "$",
\* "$&" inserts the matched text, anything else itself
Expand(chunk, matched) ==
  IF chunk = "$$" THEN "$" ELSE IF chunk = "$&" THEN matched ELSE chunk

\* template.replace(token, html) with a string pattern: the first occurrence
\* of the token is replaced by the expansion of html, a template without the
\* token is returned as it is
StringReplace(tpl, token, html) ==
  IF \A i \in 1..Len(tpl) : tpl[i] # token
    THEN tpl
    ELSE LET i == CHOOSE k \in 1..Len(tpl) :
                    tpl[k] = token /\ \A j \in 1..(k - 1) : tpl[j] # token
         IN SubSeq(tpl, 1, i - 1) \o [k \in 1..Len(html) |-> Expand(html[k], token)]
              \o SubSeq(tpl, i + 1, Len(tpl))

\* a request reaches app.use('*', ...)
SsrRequest ==
  /\ ssr.pc = "idle"
  /\ ssr' = [ssr EXCEPT !.pc = "read"]
  /\ UNCHANGED appVars

\* fs.readFileSync(index.html): the file's text, or an Error
ReadTemplate(tpl, ok) ==
  /\ ssr.pc = "read"
  /\ ssr' = IF ok THEN [ssr EXCEPT !.pc = "import", !.template = tpl]
                  ELSE [ssr EXCEPT !.pc = "catch",
                                   !.thrown = CHOOSE e \in Errors : TRUE]
  /\ UNCHANGED appVars

\* await import(serverEntryPath)
ImportRender(ok) ==
  /\ ssr.pc = "import"
  /\ ssr' = IF ok THEN [ssr EXCEPT !.pc = "render"]
                  ELSE [ssr EXCEPT !.pc = "catch",
                                   !.thrown = CHOOSE e \in Errors : TRUE]
  /\ UNCHANGED appVars

\* await render(req.originalUrl) resolves
RenderApp(html) ==
  /\ ssr.pc = "render"
  /\ ssr' = [ssr EXCEPT !.pc = "respond", !.appHtml = html]
  /\ UNCHANGED appVars

\* await render(req.originalUrl) rejects
RenderFails(e) ==
  /\ ssr.pc = "render"
  /\ ssr' = [ssr EXCEPT !.pc = "catch", !.thrown = e]
  /\ UNCHANGED appVars

\* res.status(200).set(...).end(template.replace(token, appHtml))
Respond ==
  /\ ssr.pc = "respond"
  /\ ssr' = [ssr EXCEPT !.pc = "done",
                         !.sent = Append(@, [status |-> 200,
                                   body |-> StringReplace(ssr.template, OUTLET, ssr.appHtml)])]
  /\ UNCHANGED appVars

\* the catch branch: res.status(500).end((e as Error).message). Reading
\* .message of undefined raises a TypeError inside the catch branch, so the
\* async handler rejects without having sent anything; the router either
\* leaves the rejection alone (no response) or hands it to its error handler
\* (one 500 response with that handler's body), depending on its version.
CatchRespond(handled) ==
  /\ ssr.pc = "catch"
  /\ ssr' = IF ssr.thrown.kind = "Error"
              THEN [ssr EXCEPT !.pc = "done",
                      !.sent = Append(@, [status |-> 500, body |-> <<ssr.thrown.message>>])]
              ELSE IF handled
                THEN [ssr EXCEPT !.pc = "rejected",
                        !.sent = Append(@, [status |-> 500,
                                            body |-> <<"Internal Server Error">>])]
                ELSE [ssr EXCEPT !.pc = "rejected"]
  /\ UNCHANGED appVars

\* ------------------------------------------------------ specifications
\* React renders soon after a state change: at most MaxStale other steps run
\* while a render is pending
Step(A) ==
  /\ RenderPending => stale < MaxStale
  /\ stale' = IF RenderPending THEN stale + 1 ELSE 0
  /\ A
  /\ UNCHANGED ssr

ListNext ==
  \/ \E c \in Contents, dt \in Elapsed : Step(handleAssetSaved(c, dt))
  \/ \E c \in Contents, dt \in Elapsed : Step(handleSaveToCollection(c, dt))
  \/ \E s \in saves, ok \in BOOLEAN : Step(SaveRemote(s, ok))
  \/ \E s \in saves : Step(SaveDone(s))
  \/ \E a \in Range(rendered.assets["gallery"]) : Step(handleDeleteAsset(a))
  \/ \E a \in Range(rendered.assets["collection"]) : Step(handleDeleteAssetFromCollection(a))
  \/ \E d \in dels, ok \in BOOLEAN : Step(DeleteRemote(d, ok))
  \/ \E d \in dels : Step(DeleteDone(d))
  \/ \E L \in Lists : Step(Refresh(L))
  \/ \E f \in fetches, ok \in BOOLEAN : Step(FetchRemote(f, ok))
  \/ \E f \in fetches : Step(FetchDone(f))

SessionNext ==
  \/ \E g \in getSess, ok \in BOOLEAN : Step(GetSessionResolve(g, ok))
  \/ \E t \in sessTasks, res \in ProfileResults : Step(ProfileResolve(t, res))
  \/ \E s \in {NoSession} \cup SessionUsers : Step(AuthEvent(s))
  \/ Step(handleLogout)
  \/ \E ok \in BOOLEAN : Step(SignOutRemote(ok))
  \/ Step(LogoutDone)
  \/ \E p \in Paths : Step(UserNavigate(p))

Next == ListNext \/ SessionNext \/ Render

Spec == Init /\ [][Next]_vars

\* The state the app is in once a persisted session has been projected on a
\* protected page and both lists have loaded: Init, GetSessionResolve,
\* ProfileResolve (no profile row), FetchRemote and FetchDone for both lists,
\* Render.
LoggedInWith(marker) ==
  /\ currentUser = [id |-> "u1", email |-> "u1@mail", username |-> "u1@mail"]
  /\ appLoading = FALSE
  /\ assets = [L \in Lists |-> [i \in 1..NPre |-> PreAsset(i)]]
  /\ listLoading = [L \in Lists |-> FALSE]
  /\ listError = [L \in Lists |-> NoError]
  /\ deleting = [L \in Lists |-> NullId]
  /\ isTourActive = FALSE
  /\ tourCompleted = marker
  /\ tourTimers = IF marker THEN 0 ELSE 1
  /\ path = HOME
  /\ rendered = View
  /\ effPath = HOME
  /\ sub = Closure(HOME, EmptyLists)
  /\ session = [id |-> "u1", email |-> "u1@mail"]
  /\ remote = [L \in Lists |-> [i \in 1..NPre |-> PreAsset(i)]]
  /\ clock = 0
  /\ saves = {} /\ dels = {} /\ fetches = {} /\ sessTasks = {} /\ getSess = {}
  /\ logout = "none"
  /\ lastCall = "none"
  /\ obs = [session |-> session, by |-> "mount", profile |-> NoProfile]
  /\ settled = {}
  /\ stale = 0
  /\ ncalls = [L \in Lists |-> 0] /\ nevents = 0
  /\ ssr = SsrIdle

LoggedIn == LoggedInWith(TRUE)

\* The same on a first login: no tour marker is persisted and the timer set by
\* processSession is pending.
FirstLogin == LoggedInWith(FALSE)

\* The state the app is in once it has found no persisted session on the
\* landing page: Init, GetSessionResolve, Render.
LoggedOutAt(p) ==
  /\ currentUser = NullUser
  /\ appLoading = FALSE
  /\ assets = EmptyLists
  /\ listLoading = [L \in Lists |-> FALSE]
  /\ listError = [L \in Lists |-> NoError]
  /\ deleting = [L \in Lists |-> NullId]
  /\ isTourActive = FALSE
  /\ tourCompleted = TRUE
  /\ tourTimers = 0
  /\ path = p
  /\ rendered = View
  /\ effPath = p
  /\ sub = Closure(p, EmptyLists)
  /\ session = NoSession
  /\ remote = [L \in Lists |-> [i \in 1..NPre |-> PreAsset(i)]]
  /\ clock = 0
  /\ saves = {} /\ dels = {} /\ fetches = {} /\ sessTasks = {} /\ getSess = {}
  /\ logout = "none"
  /\ lastCall = "none"
  /\ obs = [session |-> NoSession, by |-> "mount", profile |-> NoProfile]
  /\ settled = {}
  /\ stale = 0
  /\ ncalls = [L \in Lists |-> 0] /\ nevents = 0
  /\ ssr = SsrIdle

LoggedOut == LoggedOutAt(LANDING)

\* The same on the sign-in page.
AtAuth == LoggedOutAt(AUTH)

\* The session projector alone, from construction: it reaches LoggedIn and
\* LoggedOut.
BootNext ==
  \/ SessionNext
  \/ \E f \in fetches, ok \in BOOLEAN : Step(FetchRemote(f, ok))
  \/ \E f \in fetches : Step(FetchDone(f))
  \/ Render

BootSpec == Init /\ [][BootNext]_vars

\* The reconciler's specification: with the session settled (a user on a
\* protected page with both lists loaded, or nobody on the landing page), the
\* list handlers, the remote service and React run freely.
ListInit == LoggedIn \/ LoggedOut

ListSpecNext == ListNext \/ Render

ListSpec == ListInit /\ [][ListSpecNext]_vars

\* The session projector's specification: from the settled states, the
\* identity provider and the user (logout, navigation) run freely. The list
\* fetches processSession issues stay in flight: their completion writes the
\* lists and their flags only (FetchDone).
SessionInit == LoggedIn \/ LoggedOut \/ AtAuth

SessionSpecNext == SessionNext \/ Render

SessionSpec == SessionInit /\ [][SessionSpecNext]_vars

\* The logged-in user's specification: a user with or without the persisted
\* tour marker; the identity provider reports sessions of users with and
\* without an e-mail address, the profile lookups answer, the tour timers
\* fire, the user opens and dismisses the tour.
LoginInit == LoggedIn \/ FirstLogin

LoginNext ==
  \/ \E s \in SessionUsers \cup GhostUsers : Step(AuthEvent(s))
  \/ \E t \in sessTasks, res \in ProfileResults : Step(ProfileResolve(t, res))
  \/ Step(TourTimerFire)
  \/ Step(handleTourClose)
  \/ Step(HelpClick)
  \/ Render

LoginSpec == LoginInit /\ [][LoginNext]_vars

\* The teardown specification: the list handlers and the remote service run
\* as in ListSpec while the identity provider may end the session; the effect
\* re-run after the redirect reads the session again.
TeardownInit == LoggedIn

TeardownNext ==
  \/ ListNext
  \/ Step(AuthEvent(NoSession))
  \/ \E g \in getSess : Step(GetSessionResolve(g, TRUE))
  \/ Render

TeardownSpec == TeardownInit /\ [][TeardownNext]_vars

\* The SSR handler's specification: one request is handled; the file system,
\* the import and the injected render function answer freely.
SsrInit == LoggedOut

SsrNext ==
  \/ SsrRequest
  \/ \E tpl \in Templates, ok \in BOOLEAN : ReadTemplate(tpl, ok)
  \/ \E ok \in BOOLEAN : ImportRender(ok)
  \/ \E html \in Htmls : RenderApp(html)
  \/ \E e \in RenderThrows : RenderFails(e)
  \/ Respond
  \/ \E handled \in BOOLEAN : CatchRespond(handled)

SsrSpec == SsrInit /\ [][SsrNext]_vars

\* --------------------------------------------------------------- claims
SaveKinds == {"save_returned", "save_threw"}
DeleteKinds == {"delete_started", "delete_blocked"}

\* this step is a call of the save handler of list L
SaveCalled(L) == ncalls'[L] = ncalls[L] + 1 /\ lastCall' \in SaveKinds

\* this step is a call of the delete handler of list L
DeleteCalled(L) == ncalls'[L] = ncalls[L] + 1 /\ lastCall' \in DeleteKinds

\* new is old without the entries whose identifier is id, the others in order
IsFiltered(old, new, id) ==
  LET keep == {i \in 1..Len(old) : old[i].id # id}
  IN /\ Len(new) = Cardinality(keep)
     /\ \A i \in keep : new[Cardinality({j \in keep : j <= i})] = old[i]

InFlightDeletes(L) == {d \in dels : d.list = L}

\* C1: a save called with a user puts, in the same step, a new entry in front
\* of the list: its display content is the caller's content, its identifier
\* has the placeholder prefix, and the previous entries follow in their order.
C1_SavePrependsPlaceholder ==
  [][\A L \in Lists :
       (SaveCalled(L) /\ rendered.user # NullUser) =>
         /\ Len(assets'[L]) = Len(assets[L]) + 1
         /\ Tail(assets'[L]) = assets[L]
         /\ IsPlaceholderId(assets'[L][1].id)
         /\ \E s \in saves' \ saves :
              /\ s.list = L /\ s.st = "sent"
              /\ assets'[L][1].display = s.content
              /\ assets'[L][1].id = s.tempId]_vars

C1_Witness ==
  \E s \in saves :
    /\ s.st = "sent"
    /\ Len(assets[s.list]) >= 2
    /\ assets[s.list][1].op = s.op
    /\ assets[s.list][1].display = "imgB"
    /\ IsPlaceholderId(assets[s.list][1].id)

\* C2 (as claimed): when a save's successful remote write is processed, the
\* save's placeholder is in the list and the list changes at that index only,
\* where the authoritative asset now stands.
C2_SwapInPlace ==
  [][\A s \in saves :
       (s.st = "ok" /\ s \notin saves') =>
         \E i \in 1..Len(assets[s.list]) :
           /\ assets[s.list][i].op = s.op
           /\ assets[s.list][i].id = s.tempId
           /\ assets'[s.list] = [assets[s.list] EXCEPT ![i] = RealAsset(s)]]_vars

\* C3 (as claimed, for a save whose placeholder identifier no other entry
\* shares): when a save's failed remote write is processed, no entry of that
\* save remains and the list is as long as before the save was called.
C3_LengthRestored ==
  [][\A s \in saves :
       (/\ s.st = "fail" /\ s \notin saves'
        /\ \A i \in 1..Len(assets[s.list]) :
             assets[s.list][i].id = s.tempId => assets[s.list][i].op = s.op) =>
         /\ \A i \in 1..Len(assets'[s.list]) : assets'[s.list][i].op # s.op
         /\ Len(assets'[s.list]) = s.preLen]_vars

\* C3 (amended): when a save's failed remote write is processed, the list
\* loses exactly the entries that carry the save's placeholder identifier:
\* none remains, and every other entry stays, in its order.
C3_PlaceholderRemoved ==
  [][\A s \in saves :
       (s.st = "fail" /\ s \notin saves') =>
         /\ IsFiltered(assets[s.list], assets'[s.list], s.tempId)
         /\ \A L \in Lists \ {s.list} : assets'[L] = assets[L]]_vars

C3_Witness ==
  \E h \in settled :
    /\ ~h.ok
    /\ Len(assets[h.list]) > h.preLen
    /\ \A i \in 1..Len(assets[h.list]) : assets[h.list][i].op # h.op

\* C4 (as claimed): a list never holds two entries of one save, and it holds
\* one for as long as the save is in flight.
C4_OneEntryPerSave ==
  /\ \A L \in Lists : \A i, j \in 1..Len(assets[L]) :
       (i # j /\ assets[L][i].op > 0) => assets[L][i].op # assets[L][j].op
  /\ \A s \in saves : \E i \in 1..Len(assets[s.list]) : assets[s.list][i].op = s.op

\* no remote operation is in flight
Quiescent ==
  saves = {} /\ dels = {} /\ fetches = {} /\ sessTasks = {} /\ getSess = {}
    /\ logout = "none"

\* no two completed saves on a list had the same placeholder identifier
DistinctPlaceholders ==
  \A h1, h2 \in settled :
    (h1 # h2 /\ h1.list = h2.list) => h1.tempId # h2.tempId

\* C5 (as claimed, for runs in which no two saves on a list shared a
\* placeholder identifier): with no remote operation in flight, no list holds
\* a placeholder identifier, and the lists of a logged-in user hold every
\* asset the remote store holds from a save.
C5_EventuallyConsistent ==
  (Quiescent /\ DistinctPlaceholders) =>
    /\ \A L \in Lists : \A i \in 1..Len(assets[L]) : ~IsPlaceholderId(assets[L][i].id)
    /\ currentUser # NullUser =>
         \A L \in Lists : \A a \in Range(remote[L]) :
           a.op > 0 => a \in Range(assets[L])

\* C6 (as claimed): at most one remote delete per list is in flight.
C6_OneDeleteInFlight == \A L \in Lists : Cardinality(InFlightDeletes(L)) <= 1

\* C7 (as claimed): when a delete's failure is processed, the list is again
\* what it was just before the delete was called, and the error flag is set.
C7_RollbackRestores ==
  [][\A d \in dels :
       (d.st = "fail" /\ d \notin dels') =>
         /\ assets'[d.list] = d.pre
         /\ listError'[d.list] # NoError]_vars

\* C8 (as claimed): a delete called while no delete is in flight on the list
\* removes, in the same step, the entries with that identifier and nothing
\* else and sets the deleting marker to it; processing the remote success
\* leaves the list alone.
C8_DeleteRemovesEntry ==
  [][/\ \A L \in Lists :
          (DeleteCalled(L) /\ InFlightDeletes(L) = {}) =>
            \E d \in dels' \ dels :
              /\ d.list = L
              /\ deleting'[L] = d.id
              /\ IsFiltered(assets[L], assets'[L], d.id)
     /\ \A d \in dels : (d.st = "ok" /\ d \notin dels') => assets' = assets]_vars

\* C9: a save called without a user throws in the same step and changes
\* nothing: no list, no placeholder, no background write, no flag.
C9_SaveWithoutUserThrows ==
  [][\A L \in Lists :
       (SaveCalled(L) /\ rendered.user = NullUser) =>
         /\ lastCall' = "save_threw"
         /\ saves' = saves
         /\ UNCHANGED <<compVars, remote, dels, fetches>>]_vars

C9_Witness == lastCall = "save_threw" /\ rendered.user = NullUser /\ saves = {}

\* C10 (as claimed): the saves in flight on a list have different placeholder
\* identifiers, and no list holds two entries with the same identifier.
C10_UniquePlaceholderIds ==
  /\ \A s1, s2 \in saves : (s1 # s2 /\ s1.list = s2.list) => s1.tempId # s2.tempId
  /\ \A L \in Lists : \A i, j \in 1..Len(assets[L]) :
       i # j => assets[L][i].id # assets[L][j].id

\* no session processing is pending and React has rendered (so the session
\* effect has run for the current location)
SessionQuiet == sessTasks = {} /\ getSess = {} /\ logout = "none" /\ ~RenderPending

\* C11 (as claimed, errors thrown in processSession aside): with no session
\* processing pending, the current user is non-null exactly when the session
\* last passed to processSession carried a user, and then has that user's id.
C11_UserFollowsLastEvent ==
  (SessionQuiet /\ ~ProfileThrows(obs.profile)) =>
    /\ (currentUser # NullUser) <=> (obs.session.id # "")
    /\ currentUser # NullUser => currentUser.id = obs.session.id

\* a step in which processSession ends in its catch branch (the continuation
\* of task t throws), or in which getSession() of g rejects
ThrowStep(t) == t \in sessTasks /\ sessTasks' = sessTasks \ {t} /\ ProfileThrows(obs'.profile)
GetSessionFails(g) ==
  g \in getSess /\ getSess' = getSess \ {g} /\ nevents' = nevents + 1

UserStep(t) == t \in sessTasks /\ sessTasks' = sessTasks \ {t} /\ ~ProfileThrows(obs'.profile)

\* a step in which a session without a user is processed
NoUserStep ==
  \/ AuthEvent(NoSession)
  \/ SignOutRemote(TRUE)
  \/ \E g \in getSess : session = NoSession /\ GetSessionResolve(g, TRUE)

\* C13: a session with a user processed on the landing or auth route navigates
\* to the home route, a session without a user processed on any other route
\* navigates to the landing route, and in the two other cases the route stays.
C13_RedirectByCurrentRoute ==
  [][/\ (\E t \in sessTasks : UserStep(t)) => path' = IF IsPublicPath(path) THEN HOME ELSE path
     /\ NoUserStep => path' = IF IsPublicPath(path) THEN path ELSE LANDING]_vars

\* C14: processSession navigates only when it processes a session delivered
\* by the identity provider (an auth state change, or the session found when
\* the app starts), never one it re-reads because the route has changed.
C14_RedirectOnlyOnSessionEvent ==
  [][/\ \A t \in sessTasks :
           sessTasks' = sessTasks \ {t} /\ path' # path => t.by \in {"provider", "mount"}
     /\ \A g \in getSess :
           getSess' = getSess \ {g} /\ path' # path => QueryOrigin(g) = "mount"]_vars

\* C15: a tour timer is set only while no marker is persisted; dismissing the
\* tour persists the marker and hides the tour; and once the marker is
\* persisted the tour is shown again only by a help request, never by a timer,
\* not even one set before the dismissal.
C15_NoTourAfterDismissal ==
  [][/\ tourTimers' > tourTimers => ~tourCompleted
     /\ handleTourClose => tourCompleted' /\ ~isTourActive'
     /\ tourCompleted /\ ~isTourActive /\ isTourActive' => tourTimers' = tourTimers]_vars

\* C16: when processSession calls the two background refreshes (not forced),
\* a list that is not empty at that moment gets no remote fetch and keeps its
\* entries, its loading flag and its error flag.
C16_NoFetchForLoadedList ==
  [][\A t \in sessTasks : UserStep(t) =>
        \A L \in Lists : assets[L] # <<>> =>
           /\ \A f \in fetches' \ fetches : f.list # L
           /\ assets'[L] = assets[L]
           /\ listLoading'[L] = listLoading[L]
           /\ listError'[L] = listError[L]]_vars

\* C17: when a save's failed remote write is processed no error flag is set,
\* nothing is raised to a caller, and the only change to the component's state
\* is that the placeholder of that save leaves its list; when a delete's
\* failed remote call is processed the error flag of its list is set.
C17_SaveFailureSilent ==
  [][/\ \A s \in saves :
           (s.st = "fail" /\ s \notin saves') =>
             /\ listError' = listError /\ lastCall' = lastCall
             /\ assets' = [assets EXCEPT ![s.list] =
                             SelectSeq(@, LAMBDA a : ~(a.op = s.op /\ a.id = s.tempId))]
             /\ UNCHANGED <<currentUser, appLoading, listLoading, deleting, tourVars, path>>
     /\ \A d \in dels :
           (d.st = "fail" /\ d \notin dels') => listError'[d.list] # NoError]_vars

\* C18: a delete called on a list while a delete is in flight on that list is
\* blocked (the list and the remote calls stay as they are), whichever asset
\* it names; a delete called on a list with no delete in flight starts, also
\* while a delete is in flight on the other list.
C18_DeleteGuardPerList ==
  [][\A L \in Lists : DeleteCalled(L) =>
        IF InFlightDeletes(L) # {}
          THEN lastCall' = "delete_blocked" /\ assets' = assets /\ dels' = dels
          ELSE lastCall' = "delete_started"]_vars

\* C19: when the continuation of a session event with a user projects the
\* user, the id and the e-mail address are those of the session user, and the
\* display name is the username of the profile row if there is one with a
\* non-empty username, else the e-mail address if it is not empty, else
\* 'ghost_user'.
C19_DisplayName ==
  [][\A t \in sessTasks : UserStep(t) =>
        /\ currentUser'.id = t.user.id
        /\ currentUser'.email = t.user.email
        /\ currentUser'.username =
             IF obs'.profile.kind = "found" /\ obs'.profile.username # ""
               THEN obs'.profile.username
               ELSE IF t.user.email # "" THEN t.user.email ELSE "ghost_user"]_vars

\* a user with an e-mail address has been projected under the username of the
\* profile row
C19_Witness ==
  /\ obs.profile.kind = "found" /\ obs.profile.username # ""
  /\ currentUser.id = obs.session.id /\ currentUser.email # ""
  /\ currentUser.username = obs.profile.username

\* C20: when the profile lookup of a session event with a user answers with
\* an error result, the continuation still sets the current user to the
\* session user (display name: the e-mail address, or 'ghost_user' without
\* one) and does not apply the logged-out projection: the lists stay and no
\* navigation to the landing route is issued.
C20_ProfileErrorKeepsUser ==
  [][\A t \in sessTasks :
        (sessTasks' = sessTasks \ {t} /\ obs'.profile.kind = "error") =>
          /\ currentUser' # NullUser
          /\ currentUser'.id = t.user.id /\ currentUser'.email = t.user.email
          /\ currentUser'.username \in {t.user.email, "ghost_user"}
          /\ assets' = assets
          /\ path' \in {path, HOME}]_vars

\* a lookup has answered with an error result and the session user is the
\* current user, with the lists still loaded
C20_Witness ==
  /\ obs.profile.kind = "error" /\ sessTasks = {}
  /\ currentUser # NullUser /\ currentUser.id = obs.session.id
  /\ assets # EmptyLists

\* the template with its first placeholder token replaced by the output of
\* render, as it is
Spliced(tpl, html) ==
  IF \A i \in 1..Len(tpl) : tpl[i] # OUTLET
    THEN tpl
    ELSE LET i == CHOOSE k \in 1..Len(tpl) :
                    tpl[k] = OUTLET /\ \A j \in 1..(k - 1) : tpl[j] # OUTLET
         IN SubSeq(tpl, 1, i - 1) \o html \o SubSeq(tpl, i + 1, Len(tpl))

\* C21: once the handler has finished with a request it has sent exactly one
\* response: status 200 and the template with the placeholder replaced by the
\* output of render if nothing was thrown, status 500 and the message of the
\* error if a step threw an error.
C21_OneResponse ==
  ssr.pc \in {"done", "rejected"} =>
    /\ Len(ssr.sent) = 1
    /\ IF ssr.thrown = NoThrow
         THEN ssr.sent[1] = [status |-> 200, body |-> Spliced(ssr.template, ssr.appHtml)]
         ELSE /\ ssr.sent[1].status = 500
              /\ ssr.thrown.kind = "Error" => ssr.sent[1].body = <<ssr.thrown.message>>

\* C22: whenever the current user is null, no session processing is pending
\* and React has rendered, both lists are empty, whatever list operation was
\* in flight when the logged-out projection was applied.
C22_LoggedOutListsEmpty ==
  (currentUser = NullUser /\ SessionQuiet) => assets = EmptyLists

\* C23: when handleLogout continues after its signOut call has resolved, with
\* or without an error, the current user becomes null, both lists become
\* empty and the route becomes the landing route.
C23_LogoutProjects ==
  [][(logout = "resolved" /\ logout' = "none") =>
        currentUser' = NullUser /\ assets' = EmptyLists /\ path' = LANDING]_vars

\* a logout whose signOut reported an error has completed: the provider still
\* holds the session, no session processing has projected it away, and the app
\* is logged out on the landing route
C23_Witness ==
  /\ logout = "none" /\ session.id # ""
  /\ obs.session.id # "" /\ ~ProfileThrows(obs.profile)
  /\ sessTasks = {} /\ getSess = {}
  /\ currentUser = NullUser /\ assets = EmptyLists /\ path = LANDING

\* a non-null marker names an asset whose remote delete is in flight on that
\* list; and once no delete is in flight and React has rendered, the handlers
\* see a null marker, so the guard blocks no delete
MarkerTracksDelete ==
  \A L \in Lists :
    /\ deleting[L] # NullId => \E d \in InFlightDeletes(L) : d.id = deleting[L]
    /\ (InFlightDeletes(L) = {} /\ ~RenderPending) => rendered.deleting[L] = NullId

\* C24: the deleting marker of a list is non-null only while a remote delete
\* is in flight on that list and then is the identifier of an asset being
\* deleted; the continuation of a delete resets it to null after a success
\* and after a failure; so no delete stays blocked once nothing is in flight.
C24_MarkerReset ==
  [][/\ MarkerTracksDelete /\ MarkerTracksDelete'
     /\ \A d \in dels :
          (d.st \in {"ok", "fail"} /\ d \notin dels') => deleting'[d.list] = NullId]_vars

\* a delete has failed and completed: the error flag is set, nothing is in
\* flight, the marker is null again and a render has handed that to the handlers
C24_Witness ==
  \E L \in Lists :
    /\ listError[L] = "delete_failed" /\ InFlightDeletes(L) = {}
    /\ deleting[L] = NullId /\ rendered.deleting[L] = NullId /\ ~RenderPending


====
